---- MODULE Spec2Model ----
(***************************************************************************)
(* Conversational-Analyst: the shared dataset context of tools_core.py     *)
(* (STATE: df, name, schema), the thirteen operations of the menu, the     *)
(* MCP wrappers of server.py, the planner-driven loop of agent.py and the  *)
(* direct loop of client.py.                                               *)
(*                                                                         *)
(* Python and JSON values are tagged records; a Python dict is the ordered *)
(* sequence of its <<key, value>> items; a formatted error string          *)
(* f"a:{b}:{c}" is the sequence of its colon-separated fields.             *)
(***************************************************************************)
EXTENDS Integers, Sequences, FiniteSets, TLC

VARIABLES
    df,        \* STATE["df"]: the active table, or PyNone
    name,      \* STATE["name"]: the dataset name, or PyNone
    schema,    \* STATE["schema"]: the stored schema, or PyNone
    disk,      \* the set of paths that exist in the working directory
    phase,     \* position of run_agent's loop within the current turn
    raw,       \* text returned by call_llm in this turn
    plan,      \* the parsed plan: tool, args, next
    verdict,   \* what the loop printed about the plan: rejected (and why) or accepted
    fault,     \* class of the exception that left the loop, or "none"
    result,    \* outcome of the operation dispatched in this turn
    render,    \* positions of this call's charts that fig.show() failed to render
    before,    \* history: STATE as it was when this turn's operation was called
    loaded,    \* history: table and name stored by the most recent successful load
    lastGet,   \* history: result of the latest get_schema call
    prevGet,   \* history: result of the get_schema call before it, when no
               \*   set_schema call came between the two
    since,     \* history: calls made since the latest get_schema call
    between,   \* history: calls made between the two latest get_schema calls
    calls,     \* history: call_llm calls made in the current turn
    dispatched, \* history: session.call_tool calls made in the current turn
    mode,      \* the loop that runs: run_agent of agent.py or main of client.py
    cancelling \* an interrupt asked the event loop to cancel the main task

vars == <<df, name, schema, disk, phase, raw, plan, verdict, fault, result,
          render, before, loaded, lastGet, prevGet, since, between, calls,
          dispatched, mode, cancelling>>

state == <<df, name, schema>>

-----------------------------------------------------------------------------
(* Bounds of the model *)

\* Largest number of items of a columns or pairs argument the planner sends.
MaxItems == 2

\* Largest |n| of a row-count argument (n, top_n) the planner sends.
MaxCount == 2

-----------------------------------------------------------------------------
(* Python / JSON values *)

PyNone == [t |-> "none"]
PyStr(s) == [t |-> "str", s |-> s]
PyInt(i) == [t |-> "int", i |-> i]
\* a float, in hundredths: PyFloat(20) is 0.20
PyFloat(h) == [t |-> "float", h |-> h]
PyBool(b) == [t |-> "bool", b |-> b]
PyList(s) == [t |-> "list", l |-> s]
\* a dict, as the ordered sequence of its items
PyDict(items) == [t |-> "dict", d |-> items]
NaN == [t |-> "nan"]
\* a string holding a file path, as the sequence of its '/'-separated parts
PyPath(parts) == [t |-> "str", parts |-> parts]

\* a formatted string, as the sequence of the pieces the f-string joins
Fmt(fields) == [t |-> "str", fields |-> fields]

IsNone(x) == x.t = "none"

\* bool(x), as Python's `if x:` and `x or {}` evaluate it
Truthy(x) ==
    CASE x.t = "none" -> FALSE
      [] x.t = "bool" -> x.b
      [] x.t = "int" -> x.i # 0
      [] x.t = "float" -> x.h # 0
      [] x.t = "list" -> Len(x.l) > 0
      [] x.t = "dict" -> Len(x.d) > 0
      [] x.t = "str" -> IF "parts" \in DOMAIN x THEN Len(x.parts) > 0 ELSE x.s # ""
      [] OTHER -> TRUE

\* the keys of a dict, in order
Keys(d) == [i \in 1..Len(d.d) |-> d.d[i][1]]

HasKey(d, k) == \E i \in 1..Len(d.d) : d.d[i][1] = k

\* dict.get(k, default): a later item with the same key wins, as in a JSON object
Get(d, k, default) ==
    IF HasKey(d, k)
    THEN d.d[CHOOSE i \in 1..Len(d.d) :
                 d.d[i][1] = k /\ \A j \in (i + 1)..Len(d.d) : d.d[j][1] # k][2]
    ELSE default

EmptyDict == PyDict(<<>>)

-----------------------------------------------------------------------------
(* Outcomes of a call *)

Return(d) == [kind |-> "return", val |-> d]
\* an exception that leaves the called function
Raise(cls, msg) == [kind |-> "raise", cls |-> cls, msg |-> msg]
NoResult == [kind |-> "none"]

Returned(o) == o.kind = "return"
Raised(o) == o.kind = "raise"

-----------------------------------------------------------------------------
(* The files of the working directory and what pd.read_csv makes of them *)

SalesPath == <<"sales.csv">>
ArchivePath == <<"archive", "sales.csv">>
PeoplePath == <<"people.csv">>
BrokenPath == <<"broken.csv">>
NowherePath == <<"nowhere.csv">>
DefaultPath == <<"dataset.csv">>

\* the float64 cell 0.1: (hi * 2^27 + lo) * 2^-56, a significand of 53 bits
Tenth == [t |-> "double", hi |-> 53687091, lo |-> 26843546]

\* sales.csv: 3 rows, a year column, a category, a constant integer column, a
\* column with a missing cell and a constant column of 0.1
Sales ==
    [t |-> "frame", cols |-> <<"year", "region", "amount", "rebate", "rate">>,
     dtype |-> [year |-> "int64", region |-> "object", amount |-> "int64",
                rebate |-> "float64", rate |-> "float64"],
     val |-> [year |-> <<PyInt(2001), PyInt(2003), PyInt(2001)>>,
              region |-> <<PyStr("N"), PyStr("S"), PyStr("N")>>,
              amount |-> <<PyInt(10), PyInt(10), PyInt(10)>>,
              rebate |-> <<PyInt(1), NaN, NaN>>,
              rate |-> <<Tenth, Tenth, Tenth>>],
     n |-> 3]

\* archive/sales.csv: another table under the same file name
Archive ==
    [t |-> "frame", cols |-> <<"year", "region", "amount", "rebate">>,
     dtype |-> [year |-> "int64", region |-> "object", amount |-> "int64",
                rebate |-> "float64"],
     val |-> [year |-> <<PyInt(1999), PyInt(1998), PyInt(1999), PyInt(2050)>>,
              region |-> <<PyStr("E"), PyStr("E"), PyStr("W"), PyStr("E")>>,
              amount |-> <<PyInt(1), PyInt(2), PyInt(1), PyInt(40)>>,
              rebate |-> <<PyInt(0), PyInt(0), PyInt(2), PyInt(0)>>],
     n |-> 4]

\* people.csv and dataset.csv: text columns only (read_csv parses no dates)
People ==
    [t |-> "frame", cols |-> <<"who", "joined">>,
     dtype |-> [who |-> "object", joined |-> "object"],
     val |-> [who |-> <<PyStr("ann"), PyStr("bob")>>,
              joined |-> <<PyStr("2020-01-05"), PyStr("2020-02-07")>>],
     n |-> 2]

ColSet(tbl) == {tbl.cols[i] : i \in 1..Len(tbl.cols)}

\* pd.read_csv(path): the table, or the error it raises
read_csv(path, files) ==
    IF ~(path.t = "str" /\ "parts" \in DOMAIN path)
    THEN Raise("ValueError", "Invalid file path or buffer object type")
    ELSE IF path.parts \notin files
    THEN Raise("FileNotFoundError", "No such file or directory")
    ELSE CASE path.parts = SalesPath -> Return(Sales)
           [] path.parts = ArchivePath -> Return(Archive)
           [] path.parts \in {PeoplePath, DefaultPath} -> Return(People)
           [] OTHER -> Raise("ParserError", "Error tokenizing data")

\* Path(path).name: the last part of the path
PathName(path) == PyStr(path.parts[Len(path.parts)])

-----------------------------------------------------------------------------
(* Error strings *)

NoDataset == [ok |-> FALSE, error |-> <<"no_dataset_loaded">>]
NoPath == [ok |-> FALSE, error |-> <<"no_path_provided_and_dataset.csv_not_found">>]

Sentinels == {NoDataset.error, NoPath.error}

-----------------------------------------------------------------------------
(* Data I/O: load_data, set_schema, get_schema *)

\* a load_data that passes a missing path on to pd.read_csv
LoadPath_keeps(path) == path

\* the path load_data reads: the default file when path is None
LoadPath(path) == IF IsNone(path) THEN PyPath(DefaultPath) ELSE path

\* load_data, clearing the table when the file cannot be read
load_data_clears(path) ==
    IF IsNone(path) /\ DefaultPath \notin disk
    THEN /\ result' = Return(NoPath)
         /\ UNCHANGED <<df, name, schema>>
    ELSE LET got == read_csv(LoadPath(path), disk) IN
         /\ df' = IF Returned(got) THEN got.val ELSE PyNone
         /\ name' = IF Returned(got) THEN PathName(LoadPath(path)) ELSE name
         /\ result' = IF Returned(got)
                      THEN Return([ok |-> TRUE,
                                   dataset |-> PathName(LoadPath(path)),
                                   rows |-> got.val.n,
                                   cols |-> Len(got.val.cols),
                                   columns |-> got.val.cols])
                      ELSE Return([ok |-> FALSE,
                                   error |-> <<"load_failed", got.cls, got.msg>>])
         /\ UNCHANGED schema

\* load_data, dropping the stored schema with the table it replaces
load_data_resets_schema(path) ==
    IF IsNone(path) /\ DefaultPath \notin disk
    THEN /\ result' = Return(NoPath)
         /\ UNCHANGED <<df, name, schema>>
    ELSE LET got == read_csv(LoadPath(path), disk) IN
         IF Returned(got)
         THEN /\ df' = got.val
              /\ name' = PathName(LoadPath(path))
              /\ schema' = PyNone
              /\ result' = Return([ok |-> TRUE,
                                   dataset |-> PathName(LoadPath(path)),
                                   rows |-> got.val.n,
                                   cols |-> Len(got.val.cols),
                                   columns |-> got.val.cols])
         ELSE /\ result' = Return([ok |-> FALSE,
                                   error |-> <<"load_failed", got.cls, got.msg>>])
              /\ UNCHANGED <<df, name, schema>>

\* the STATE and the outcome load_data(path) produces
load_data(path) ==
    IF IsNone(path) /\ DefaultPath \notin disk
    THEN /\ result' = Return(NoPath)
         /\ UNCHANGED <<df, name, schema>>
    ELSE LET got == read_csv(LoadPath(path), disk) IN
         IF Returned(got)
         THEN /\ df' = got.val
              /\ name' = PathName(LoadPath(path))
              /\ result' = Return([ok |-> TRUE,
                                   dataset |-> PathName(LoadPath(path)),
                                   rows |-> got.val.n,
                                   cols |-> Len(got.val.cols),
                                   columns |-> got.val.cols])
              /\ UNCHANGED schema
         ELSE /\ result' = Return([ok |-> FALSE,
                                   error |-> <<"load_failed", got.cls, got.msg>>])
              /\ UNCHANGED <<df, name, schema>>

\* a set_schema that drops the table its schema was written for
set_schema_clears_table(s) ==
    /\ schema' = s
    /\ df' = PyNone
    /\ name' = PyNone
    /\ result' = IF s.t = "dict"
                 THEN Return([ok |-> TRUE, keys |-> Keys(s)])
                 ELSE Raise("AttributeError", "object has no attribute 'keys'")

\* set_schema stores its argument first and reads its keys afterwards
set_schema(s) ==
    /\ schema' = s
    /\ UNCHANGED <<df, name>>
    /\ result' = IF s.t = "dict"
                 THEN Return([ok |-> TRUE, keys |-> Keys(s)])
                 ELSE Raise("AttributeError", "object has no attribute 'keys'")

get_schema == Return([ok |-> ~IsNone(schema), schema |-> schema])

-----------------------------------------------------------------------------
(* Helpers over tables *)

Min2(a, b) == IF a < b THEN a ELSE b
Max2(a, b) == IF a > b THEN a ELSE b
Abs(a) == IF a < 0 THEN 0 - a ELSE a

IsColumn(tbl, c) == c.t = "str" /\ "s" \in DOMAIN c /\ c.s \in ColSet(tbl)

IsNumeric(tbl, cname) == tbl.dtype[cname] \in {"int64", "float64"}

\* the subsequence of s whose elements satisfy Keep, in order
RECURSIVE SelectIdx(_, _, _)
SelectIdx(s, keep, i) ==
    IF i > Len(s) THEN <<>>
    ELSE (IF i \in keep THEN <<s[i]>> ELSE <<>>) \o SelectIdx(s, keep, i + 1)

NumericCols(tbl) ==
    SelectIdx(tbl.cols, {i \in 1..Len(tbl.cols) : IsNumeric(tbl, tbl.cols[i])}, 1)

ObjectCols(tbl) ==
    SelectIdx(tbl.cols, {i \in 1..Len(tbl.cols) : ~IsNumeric(tbl, tbl.cols[i])}, 1)

\* the number of rows x[:k] keeps of n rows, as DataFrame.head and Series.head
\* count them: a negative k drops the last |k| rows
HeadLen(k, n) == IF k >= 0 THEN Min2(k, n) ELSE Max2(n + k, 0)

\* row i of the table as a mapping column -> cell
Row(tbl, i) == [c \in ColSet(tbl) |-> tbl.val[c][i]]

\* str(cell), as Series.astype(str) renders it
AsStr(cell) ==
    CASE cell.t = "str" -> cell
      [] cell.t = "nan" -> PyStr("nan")
      [] OTHER -> [t |-> "str", digits |-> cell.i]

RECURSIVE SumOver(_, _)
SumOver(f, S) ==
    IF S = {} THEN 0
    ELSE LET x == CHOOSE y \in S : TRUE IN f[x] + SumOver(f, S \ {x})

\* dict assignment out[k] = v on an ordered dict
DictSet(items, k, v) ==
    IF \E i \in 1..Len(items) : items[i][1] = k
    THEN [i \in 1..Len(items) |-> IF items[i][1] = k THEN <<k, v>> ELSE items[i]]
    ELSE Append(items, <<k, v>>)

\* Series.value_counts() of a sequence of values: <<value, count>> items, the
\* most frequent first, equal counts in order of first appearance
ValueCounts(s) ==
    LET first == {i \in 1..Len(s) : \A j \in 1..(i - 1) : s[j] # s[i]}
        cnt(i) == Cardinality({j \in 1..Len(s) : s[j] = s[i]})
        rank(i) == 1 + Cardinality({j \in first :
                         cnt(j) > cnt(i) \/ (cnt(j) = cnt(i) /\ j < i)})
    IN  [r \in 1..Cardinality(first) |->
            LET i == CHOOSE j \in first : rank(j) = r IN <<s[i], cnt(i)>>]

\* value_counts().sort_index() over integer values: ascending by key
SortedCounts(s) ==
    LET keys == {s[i] : i \in 1..Len(s)}
        cnt(k) == Cardinality({j \in 1..Len(s) : s[j] = k})
        rank(k) == 1 + Cardinality({q \in keys : q < k})
    IN  [r \in 1..Cardinality(keys) |->
            LET k == CHOOSE q \in keys : rank(q) = r IN <<k, cnt(k)>>]

-----------------------------------------------------------------------------
(* Summaries: summary, head *)

NumericStats == <<"count", "mean", "std", "min", "25%", "50%", "75%", "max">>
ObjectStats == <<"count", "unique", "top", "freq">>

\* df.describe().T.to_dict() and df.describe(include="all").T.to_dict(): a
\* mapping statistic -> (column -> value); the values are left out
Describe(tbl, all) ==
    LET num == NumericCols(tbl)
        obj == ObjectCols(tbl)
    IN  IF all
        THEN [stats |-> IF obj = <<>> THEN NumericStats
                        ELSE IF num = <<>> THEN ObjectStats
                        ELSE ObjectStats \o SubSeq(NumericStats, 2, 8),
              columns |-> tbl.cols]
        ELSE IF num # <<>>
        THEN [stats |-> NumericStats, columns |-> num]
        ELSE [stats |-> ObjectStats, columns |-> obj]

summary(numeric_only) ==
    IF IsNone(df) THEN Return(NoDataset)
    ELSE Return([ok |-> TRUE, rows |-> df.n, cols |-> Len(df.cols),
                 describe |-> Describe(df, ~Truthy(numeric_only))])

\* head has no failure boundary: a bad n raises out of the function
head(n) ==
    IF IsNone(df) THEN Return(NoDataset)
    ELSE CASE n.t = "int" ->
                Return([ok |-> TRUE,
                        rows |-> [i \in 1..HeadLen(n.i, df.n) |-> Row(df, i)]])
           [] n.t = "none" ->
                Return([ok |-> TRUE, rows |-> [i \in 1..df.n |-> Row(df, i)]])
           [] OTHER -> Raise("TypeError", "cannot do positional indexing")

-----------------------------------------------------------------------------
(* Categorical: top_categories *)

\* what one pass of the loop body stores under out[c]; shown is whether
\* fig.show() rendered the bar chart
TopEntry(tbl, c, top_n, shown) ==
    IF ~IsColumn(tbl, c) THEN Fmt(<<"error", "KeyError">>)
    ELSE IF top_n.t # "int" THEN Fmt(<<"error", "cannot do positional indexing">>)
    ELSE IF ~shown THEN Fmt(<<"error", "render">>)
    ELSE LET counts == ValueCounts([i \in 1..tbl.n |-> AsStr(tbl.val[c.s][i])])
         IN  PyDict(SubSeq(counts, 1, HeadLen(top_n.i, Len(counts))))

RECURSIVE TopLoop(_, _, _, _, _, _)
TopLoop(tbl, columns, top_n, unshown, i, out) ==
    IF i > Len(columns) THEN out
    ELSE TopLoop(tbl, columns, top_n, unshown, i + 1,
                 DictSet(out, columns[i],
                         TopEntry(tbl, columns[i], top_n, i \notin unshown)))

\* unshown: the positions in columns whose chart fails to render.
\* `for c in columns` is outside the try: a non-iterable columns raises
top_categories(columns, top_n, unshown) ==
    IF IsNone(df) THEN Return(NoDataset)
    ELSE CASE columns.t = "list" ->
                Return([ok |-> TRUE,
                        top_categories |-> TopLoop(df, columns.l, top_n, unshown, 1, <<>>)])
           [] columns.t \in {"none", "int", "float", "bool"} ->
                Raise("TypeError", "object is not iterable")

-----------------------------------------------------------------------------
(* Correlations: correlations, scatter_pairs *)

CorrMethods == {"pearson", "kendall", "spearman"}

\* df[columns] for a list of labels: the labels, or KeyError
AllColumns(tbl, columns) == \A i \in 1..Len(columns) : IsColumn(tbl, columns[i])

Labels(columns) == [i \in 1..Len(columns) |-> columns[i].s]

\* frame.corr(method): the columns of the matrix, or the error raised
\* (numeric_only=False refuses a text column)
Corr(tbl, labels, method, numeric_only) ==
    LET num == SelectIdx(labels, {i \in 1..Len(labels) : IsNumeric(tbl, labels[i])}, 1)
    IN  IF ~(method.t = "str" /\ method.s \in CorrMethods)
        THEN Raise("ValueError", "method must be either 'pearson', 'spearman', 'kendall'")
        ELSE IF ~numeric_only /\ num # labels
        THEN Raise("ValueError", "could not convert string to float")
        ELSE Return(num)

\* the error string has two fields: the message only, without the error class
correlations(columns, method) ==
    IF IsNone(df) THEN Return(NoDataset)
    ELSE LET got ==
               IF IsNone(columns) THEN Corr(df, df.cols, method, TRUE)
               ELSE IF columns.t # "list"
               THEN (IF IsColumn(df, columns)
                     THEN Raise("TypeError", "corr() missing 1 required positional argument")
                     ELSE Raise("KeyError", "label"))
               ELSE IF ~AllColumns(df, columns.l)
               THEN Raise("KeyError", "not in index")
               ELSE Corr(df, Labels(columns.l), method, FALSE)
         IN  IF Returned(got)
             THEN Return([ok |-> TRUE, method |-> method, corr |-> got.val])
             ELSE Return([ok |-> FALSE, error |-> <<"correlation_failed", got.msg>>])

\* px.scatter(df, x, y, trendline="ols") and fig.show(): the error message, or
\* "" when the figure was built and shown
Scatter(tbl, x, y, shown) ==
    IF ~IsColumn(tbl, x) \/ ~IsColumn(tbl, y)
    THEN "Value of argument is not the name of a column"
    ELSE IF ~IsNumeric(tbl, x.s) \/ ~IsNumeric(tbl, y.s)
    THEN "Could not convert value into a numeric type"
    ELSE IF ~shown THEN "render"
    ELSE ""

\* a pair the loop header `for x, y in pairs` can unpack
IsPair(p) == p.t = "list" /\ Len(p.l) = 2

RECURSIVE ScatterLoop(_, _, _, _, _)
ScatterLoop(tbl, pairs, unshown, i, rendered) ==
    IF i > Len(pairs) THEN Return([ok |-> TRUE, pairs_rendered |-> rendered])
    ELSE IF ~IsPair(pairs[i])
    THEN Raise(IF pairs[i].t = "list" THEN "ValueError" ELSE "TypeError", "cannot unpack")
    ELSE LET x == pairs[i].l[1]
             y == pairs[i].l[2]
             err == Scatter(tbl, x, y, i \notin unshown)
         IN  ScatterLoop(tbl, pairs, unshown, i + 1,
                         Append(rendered,
                                IF err = "" THEN Fmt(<<x, "vs", y>>)
                                ELSE Fmt(<<x, "vs", y, "error", err>>)))

scatter_pairs(pairs, unshown) ==
    IF IsNone(df) THEN Return(NoDataset)
    ELSE CASE pairs.t = "list" -> ScatterLoop(df, pairs.l, unshown, 1, <<>>)
           [] pairs.t \in {"none", "int", "float", "bool"} ->
                Raise("TypeError", "object is not iterable")

-----------------------------------------------------------------------------
(* Outliers and missing values *)

IsNumber(x) == x.t \in {"int", "float"}

\* a number in hundredths
Hundredths(x) == IF x.t = "int" THEN 100 * x.i ELSE x.h

\* a natural number as <<hi, lo>>, hi * 2^27 + lo
Limbs(hi, lo) == <<hi + (lo \div 2^27), lo % 2^27>>

\* x rounded to 53 significant bits, ties to even, as a float64 addition
\* rounds its sum
Round53(x) ==
    LET unit == IF x[1] < 2^26 THEN 1 ELSE IF x[1] < 2^27 THEN 2
                ELSE IF x[1] < 2^28 THEN 4 ELSE 8
        rem == x[2] % unit
        down == x[2] - rem
        up == 2 * rem > unit \/ (2 * rem = unit /\ (down \div unit) % 2 = 1)
    IN  Limbs(x[1], IF up THEN down + unit ELSE down)

\* values.sum() over k equal float64 cells c: ((c + c) + c) + ...
RECURSIVE FloatSum(_, _)
FloatSum(c, k) ==
    IF k = 1 THEN <<c.hi, c.lo>>
    ELSE LET s == FloatSum(c, k - 1) IN Round53(Limbs(s[1] + c.hi, s[2] + c.lo))

\* the float64 quotient x / k, rounded to nearest, ties to even
FloatDiv(x, k) ==
    LET t == (x[1] % k) * 2^27 + x[2]
        up == 2 * (t % k) > k \/ (2 * (t % k) = k /\ (t \div k) % 2 = 1)
    IN  Limbs(x[1] \div k, (t \div k) + (IF up THEN 1 ELSE 0))

\* 1e-9, the floor of the z-score denominator, in units of 2^-56
Epsilon == 72057594

\* |(v - mean) / (std(ddof=0) + 1e-9)| > z for a cell of a column of n equal
\* float64 cells c: with r = |c - mean| in units of 2^-56, std is r and the
\* score is r / (r + 1e-9), which is below 1
DoubleExceeds(c, n, z) ==
    LET mean == FloatDiv(FloatSum(c, n), n)
        r == Abs((c.hi - mean[1]) * 2^27 + c.lo - mean[2])
        zh == Hundredths(z)
    IN  IF zh < 0 THEN TRUE
        ELSE IF zh = 0 THEN r > 0
        ELSE IF zh >= 100 \/ r = 0 THEN FALSE
        ELSE (r * (100 - zh) - 1) \div zh >= Epsilon

\* |(v - mean) / (std(ddof=0) + 1e-9)| > z for cell i of a numeric column, in
\* integers: with m present cells of sum s and q = m*sum(v^2) - s^2 = (m*std)^2,
\* the score is |m*v - s| / (sqrt(q) + m*1e-9)
ZExceeds(tbl, cname, i, z) ==
    LET col == tbl.val[cname]
        present == {j \in 1..tbl.n : col[j].t # "nan"}
        m == Cardinality(present)
        s == SumOver([j \in present |-> col[j].i], present)
        q == m * SumOver([j \in present |-> col[j].i * col[j].i], present) - s * s
        d == Abs(m * col[i].i - s)
        zh == Hundredths(z)
    IN  IF col[i].t = "double" THEN DoubleExceeds(col[i], tbl.n, z)
        ELSE /\ i \in present
             /\ IF zh < 0 THEN TRUE ELSE 10000 * d * d > zh * zh * q

\* the error string has two fields; the context is "outlier", not the
\* operation's name
outliers(columns, z) ==
    IF IsNone(df) THEN Return(NoDataset)
    ELSE LET failed(msg) == Return([ok |-> FALSE, error |-> <<"outlier_failed", msg>>]) IN
         IF columns.t # "list"
         THEN (IF IsColumn(df, columns)
               THEN failed("'Series' object has no attribute 'select_dtypes'")
               ELSE failed("KeyError"))
         ELSE IF ~AllColumns(df, columns.l) THEN failed("not in index")
         ELSE LET labels == Labels(columns.l)
                  sub == {labels[i] : i \in {j \in 1..Len(labels) : IsNumeric(df, labels[j])}}
              IN  IF sub # {} /\ ~IsNumber(z)
                  THEN failed("'>' not supported between instances")
                  ELSE LET mask == {i \in 1..df.n : \E c \in sub : ZExceeds(df, c, i, z)}
                           idx == SelectIdx([i \in 1..df.n |-> i - 1], mask, 1)
                       IN  Return([ok |-> TRUE, count |-> Len(idx), indices |-> idx])

\* the number of missing cells of a column
NaCount(tbl, cname) == Cardinality({i \in 1..tbl.n : tbl.val[cname][i].t = "nan"})

\* missing has no failure boundary: a threshold that is no number raises.
\* The flagged columns, the largest share first; a share is <<missing, rows>>
missing(threshold) ==
    IF IsNone(df) THEN Return(NoDataset)
    ELSE IF ~IsNumber(threshold)
    THEN Raise("TypeError", "'>' not supported between instances")
    ELSE LET flagged == {i \in 1..Len(df.cols) :
                            100 * NaCount(df, df.cols[i]) > Hundredths(threshold) * df.n}
             rank(i) == 1 + Cardinality({j \in flagged :
                            \/ NaCount(df, df.cols[j]) > NaCount(df, df.cols[i])
                            \/ NaCount(df, df.cols[j]) = NaCount(df, df.cols[i]) /\ j < i})
         IN  Return([ok |-> TRUE, threshold |-> threshold,
                     missing |-> [r \in 1..Cardinality(flagged) |->
                         LET i == CHOOSE j \in flagged : rank(j) = r
                         IN  <<df.cols[i], <<NaCount(df, df.cols[i]), df.n>> >>]])

-----------------------------------------------------------------------------
(* Plots: plot_hist, plot_xy *)

\* px.histogram raises on a column that is not in the table, fig.show() when
\* the chart cannot be rendered; both land in the same except clause
plot_hist(column, nbins, shown) ==
    IF IsNone(df) THEN Return(NoDataset)
    ELSE IF ~IsColumn(df, column)
    THEN Return([ok |-> FALSE,
                 error |-> <<"plot_hist_failed", "Value of 'x' is not the name of a column">>])
    ELSE IF ~shown THEN Return([ok |-> FALSE, error |-> <<"plot_hist_failed", "render">>])
    ELSE Return([ok |-> TRUE])

plot_xy(x, y, shown) ==
    IF IsNone(df) THEN Return(NoDataset)
    ELSE LET err == Scatter(df, x, y, shown) IN
         IF err = "" THEN Return([ok |-> TRUE])
         ELSE Return([ok |-> FALSE, error |-> <<"plot_xy_failed", err>>])

-----------------------------------------------------------------------------
(* Time trends: time_trend *)

\* pd.to_numeric(s, errors="coerce").dropna().astype(int): the integer cells
\* of a numeric column; the cells of a text column are coerced to NaN
YearValues(tbl, cname) ==
    IF ~IsNumeric(tbl, cname) THEN <<>>
    ELSE LET kept == {i \in 1..tbl.n : tbl.val[cname][i].t # "nan"}
             cells == SelectIdx(tbl.val[cname], kept, 1)
         IN  [i \in 1..Len(cells) |-> cells[i].i]

\* time_trend, reading the column before it looks for the table
time_trend_reads_first(column, freq, shown) ==
    IF IsNone(df) THEN Raise("TypeError", "'NoneType' object is not subscriptable")
    ELSE IF ~IsColumn(df, column) THEN Raise("KeyError", "column")
    ELSE IF ~shown THEN Return([ok |-> FALSE, error |-> <<"time_trend_failed", "render">>])
    ELSE Return([ok |-> TRUE, type |-> "year-int",
                 trend |-> SortedCounts(YearValues(df, column.s))])

\* s = df[column] is read before the try: an unknown column raises KeyError out
\* of the function.  fig.show() is inside the try: a chart that cannot be
\* rendered turns the computed trend into ok:false.  pd.read_csv is called
\* without parse_dates, so no column of a loaded table is datetime-typed and
\* the year-int branch is the one taken.
time_trend(column, freq, shown) ==
    IF IsNone(df) THEN Return(NoDataset)
    ELSE IF ~IsColumn(df, column) THEN Raise("KeyError", "column")
    ELSE IF ~shown THEN Return([ok |-> FALSE, error |-> <<"time_trend_failed", "render">>])
    ELSE Return([ok |-> TRUE, type |-> "year-int",
                 trend |-> SortedCounts(YearValues(df, column.s))])

-----------------------------------------------------------------------------
(* What the planner can answer *)

SeqsUpTo(S, n) == UNION {[1..k -> S] : k \in 0..n}

\* the tools server.py registers, as session.list_tools() names them
tool_names ==
    <<"tool_load_data", "tool_set_schema", "tool_get_schema", "tool_summary",
      "tool_head", "tool_top_categories", "tool_correlations",
      "tool_scatter_pairs", "tool_outliers", "tool_missing", "tool_plot_hist",
      "tool_plot_xy", "tool_time_trend">>

ToolSet == {tool_names[i] : i \in 1..Len(tool_names)}

\* the operations that read STATE["df"]
DatasetTools == ToolSet \ {"tool_load_data", "tool_set_schema", "tool_get_schema"}

ColNames == {PyStr("year"), PyStr("region"), PyStr("nope")}
ColLists == {PyList(q) : q \in SeqsUpTo(ColNames, MaxItems)}
PairItems ==
    {PyList(<<PyStr("year"), PyStr("amount")>>),
     PyList(<<PyStr("nope"), PyStr("year")>>),
     PyList(<<PyStr("year")>>)}
PairLists == {PyList(q) : q \in SeqsUpTo(PairItems, MaxItems)}
Counts == {PyInt(i) : i \in (0 - MaxCount)..MaxCount}

\* a schema the planner supplies; it may name columns no table has
Buckets ==
    PyDict(<< <<"numeric", PyList(<<PyStr("year"), PyStr("amount")>>)>>,
              <<"time", PyList(<<PyStr("ghost")>>)>> >>)

Kw(k, v) == PyDict(<< <<k, v>> >>)
Kw2(k1, v1, k2, v2) == PyDict(<< <<k1, v1>>, <<k2, v2>> >>)

\* the argument objects the planner sends with each tool
ArgSets(tool) ==
    CASE tool = "tool_load_data" ->
            {EmptyDict, Kw("path", PyNone), Kw("path", PyInt(42))}
            \cup {Kw("path", PyPath(f)) : f \in {SalesPath, ArchivePath, PeoplePath,
                                                BrokenPath, NowherePath}}
      [] tool = "tool_set_schema" ->
            {EmptyDict, Kw("schema", EmptyDict), Kw("schema", Buckets),
             Kw("schema", PyNone), Kw("schema", PyList(<<PyStr("year")>>))}
      [] tool = "tool_get_schema" -> {EmptyDict}
      [] tool = "tool_summary" ->
            {EmptyDict, Kw("numeric_only", PyBool(FALSE)), Kw("numeric_only", PyStr("yes"))}
      [] tool = "tool_head" ->
            {EmptyDict, Kw("n", PyStr("two")), Kw("n", PyNone)}
            \cup {Kw("n", k) : k \in Counts}
      [] tool = "tool_top_categories" ->
            {EmptyDict, Kw("columns", PyInt(5)),
             Kw2("columns", PyList(<<PyStr("region")>>), "top_n", PyStr("few"))}
            \cup {Kw("columns", c) : c \in ColLists}
            \cup {Kw2("columns", PyList(<<PyStr("region")>>), "top_n", k) : k \in Counts}
      [] tool = "tool_correlations" ->
            {EmptyDict, Kw("method", PyStr("bogus")), Kw("columns", PyStr("year")),
             Kw2("columns", PyList(<<PyStr("year")>>), "method", PyStr("spearman"))}
            \cup {Kw("columns", c) : c \in ColLists}
      [] tool = "tool_scatter_pairs" ->
            {EmptyDict, Kw("pairs", PyInt(7))} \cup {Kw("pairs", q) : q \in PairLists}
      [] tool = "tool_outliers" ->
            {EmptyDict, Kw("columns", PyStr("year")),
             Kw2("columns", PyList(<<PyStr("year")>>), "z", PyStr("high")),
             Kw2("columns", PyList(<<PyStr("year")>>), "z", PyInt(1)),
             Kw2("columns", PyList(<<PyStr("year")>>), "z", PyFloat(50)),
             Kw2("columns", PyList(<<PyStr("amount")>>), "z", PyInt(0)),
             Kw2("columns", PyList(<<PyStr("amount")>>), "z", PyInt(-1)),
             Kw("columns", PyList(<<PyStr("amount"), PyStr("rate")>>)),
             Kw2("columns", PyList(<<PyStr("rate")>>), "z", PyFloat(50)),
             Kw2("columns", PyList(<<PyStr("rate")>>), "z", PyInt(0))}
            \cup {Kw("columns", c) : c \in ColLists}
      [] tool = "tool_missing" ->
            {EmptyDict, Kw("threshold", PyFloat(50)), Kw("threshold", PyInt(0)),
             Kw("threshold", PyStr("lots")), Kw("threshold", PyNone)}
      [] tool = "tool_plot_hist" ->
            {EmptyDict, Kw("column", PyStr("year")), Kw("column", PyStr("nope")),
             Kw2("column", PyStr("region"), "nbins", PyInt(4))}
      [] tool = "tool_plot_xy" ->
            {EmptyDict, Kw2("x", PyStr("year"), "y", PyStr("amount")),
             Kw2("x", PyStr("year"), "y", PyStr("nope")),
             Kw2("x", PyStr("region"), "y", PyStr("year"))}
      [] tool = "tool_time_trend" ->
            {EmptyDict, Kw("column", PyStr("year")), Kw("column", PyStr("nope")),
             Kw("column", PyStr("region")), Kw("column", PyStr("joined")),
             Kw2("column", PyStr("rebate"), "freq", PyStr("Y"))}

PlanObject(tool, args) == PyDict(<< <<"tool", tool>>, <<"args", args>> >>)

\* JSON objects that are no well-formed plan
OddObjects ==
    {EmptyDict,
     Kw("args", EmptyDict),
     Kw("tool", PyNone),
     Kw("tool", PyStr("summary")),
     Kw("tool", PyList(<<PyStr("tool_summary")>>)),
     Kw("tool", PyStr("tool_summary")),
     Kw("tool", PyStr("tool_load_data")),
     PlanObject(PyStr("tool_head"), PyNone),
     PlanObject(PyStr("tool_head"), PyList(<<>>)),
     PlanObject(PyStr("tool_head"), PyList(<<PyInt(2)>>)),
     PlanObject(PyStr("tool_load_data"), PyStr("sales.csv")),
     PlanObject(PyStr("load_data"), Kw("path", PyPath(SalesPath))),
     PyDict(<< <<"tool", PyStr("tool_get_schema")>>, <<"args", EmptyDict>>,
               <<"reason", PyStr("why")>>, <<"next", PyStr("what next?")>> >>)}

\* JSON texts that are no object
NonObjects == {PyNone, PyInt(7), PyStr("tool_summary"), PyList(<<>>),
               PyList(<<PlanObject(PyStr("tool_summary"), EmptyDict)>>)}

Json(v) == [syntax |-> "json", val |-> v]
\* text json.loads refuses; val is the object the text was meant to hold
Malformed(how, v) == [syntax |-> how, val |-> v]
NoRaw == [syntax |-> "none"]

RawTexts ==
    UNION {{Json(PlanObject(PyStr(t), a)) : a \in ArgSets(t)} : t \in ToolSet}
    \cup {Json(v) : v \in OddObjects \cup NonObjects}
    \cup {Malformed(how, PlanObject(PyStr("tool_load_data"), Kw("path", PyPath(SalesPath)))) :
              how \in {"trailing_comma", "prose_before_json", "json_then_prose"}}

\* json.loads(raw)
json_loads(text) ==
    IF text.syntax = "json" THEN Return(text.val)
    ELSE Raise("JSONDecodeError", text.syntax)

-----------------------------------------------------------------------------
(* The state *)

NoPlan == [tool |-> PyNone, args |-> EmptyDict]
Snapshot == [df |-> df, name |-> name, schema |-> schema]
NoSnapshot == [df |-> PyNone, name |-> PyNone, schema |-> PyNone]
NoCalls == [set |-> FALSE, load |-> FALSE]

\* every file but dataset.csv, which the working directory may or may not hold
Files == {SalesPath, ArchivePath, PeoplePath, BrokenPath}

Init ==
    /\ df = PyNone
    /\ name = PyNone
    /\ schema = PyNone
    /\ disk \in {Files, Files \cup {DefaultPath}}
    /\ phase = "AwaitingInput"
    /\ raw = NoRaw
    /\ plan = NoPlan
    /\ verdict = "none"
    /\ fault = "none"
    /\ result = NoResult
    /\ render = {}
    /\ before = NoSnapshot
    /\ loaded = [df |-> PyNone, name |-> PyNone]
    /\ lastGet = NoResult
    /\ prevGet = NoResult
    /\ since = NoCalls
    /\ between = NoCalls
    /\ calls = 0
    /\ dispatched = 0
    /\ mode \in {"agent", "client"}
    /\ cancelling = FALSE

-----------------------------------------------------------------------------
(* agent.py: the loop of run_agent *)

UserLines == {"exit", "QUIT", "", "show me the data"}

\* str.lower() on the lines the user types
Lower(line) == IF line = "QUIT" THEN "quit" ELSE line

turn == <<raw, plan, verdict, fault, result, render, before>>
history == <<loaded, lastGet, prevGet, since, between>>
counts == <<calls, dispatched>>

\* one more call in this turn; a turn the loop runs never counts beyond two
Once(k) == IF k < 2 THEN k + 1 ELSE k

\* input(): exit and quit end the loop, an empty line asks again, anything
\* else starts a turn
ReadInput ==
    /\ mode = "agent"
    /\ phase = "AwaitingInput"
    /\ \E line \in UserLines :
          phase' = IF Lower(line) \in {"exit", "quit"} THEN "Ended"
                   ELSE IF line = "" THEN "AwaitingInput"
                   ELSE "Proposing"
    /\ calls' = 0
    /\ dispatched' = 0
    /\ UNCHANGED <<state, disk, turn, history, mode, cancelling>>

\* Ctrl-C at the prompt of either loop.  Where input() raises
\* KeyboardInterrupt the handler ends the loop.  Under asyncio.run of Python
\* 3.11 and later the first SIGINT only asks for the main task to be cancelled:
\* input() keeps waiting for a line, and a second Ctrl-C raises KeyboardInterrupt.
Interrupt ==
    /\ phase = "AwaitingInput"
    /\ \/ phase' = "Ended" /\ UNCHANGED cancelling
       \/ ~cancelling /\ cancelling' = TRUE /\ UNCHANGED phase
    /\ UNCHANGED <<state, disk, turn, history, counts, mode>>

\* call_llm returns the model's text
call_llm ==
    /\ phase = "Proposing"
    /\ \E text \in RawTexts : raw' = text
    /\ phase' = "Validating"
    /\ calls' = Once(calls)
    /\ UNCHANGED <<state, disk, plan, verdict, fault, result, render, before, history,
                   dispatched, mode, cancelling>>

\* requests.post or raise_for_status raises: no handler of the loop catches a
\* RequestException, so it leaves run_agent
call_llm_fails ==
    /\ phase = "Proposing"
    /\ phase' = "Crashed"
    /\ fault' = "RequestException"
    /\ calls' = Once(calls)
    /\ UNCHANGED <<state, disk, raw, plan, verdict, result, render, before, history,
                   dispatched, mode, cancelling>>

InToolNames(tool) == tool.t = "str" /\ "s" \in DOMAIN tool /\ tool.s \in ToolSet

\* plan.get("args", {}) or {}
PlanArgs(obj) ==
    LET a == Get(obj, "args", EmptyDict) IN IF Truthy(a) THEN a ELSE EmptyDict

\* steps 4 and 5 up to the call: json.loads, plan.get, the tool_names test
Validate ==
    /\ phase = "Validating"
    /\ LET parsed == json_loads(raw) IN
       IF Raised(parsed)
       THEN /\ verdict' = "InvalidPlanSyntax"
            /\ phase' = "Rejected"
            /\ UNCHANGED <<plan, fault>>
       ELSE IF parsed.val.t # "dict"
       THEN \* plan.get on a list, a number, a string or None
            /\ fault' = "AttributeError"
            /\ phase' = "Crashed"
            /\ UNCHANGED <<plan, verdict>>
       ELSE IF ~InToolNames(Get(parsed.val, "tool", PyNone))
       THEN /\ verdict' = "UnknownOperation"
            /\ phase' = "Rejected"
            /\ UNCHANGED <<plan, fault>>
       ELSE /\ verdict' = "accepted"
            /\ plan' = [tool |-> Get(parsed.val, "tool", PyNone),
                        args |-> PlanArgs(parsed.val)]
            /\ phase' = "Dispatching"
            /\ UNCHANGED fault
    /\ UNCHANGED <<state, disk, raw, result, render, before, history, counts,
                   mode, cancelling>>

\* a loop that asks the planner again after a rejected plan
Continue_retries ==
    /\ phase = "Rejected"
    /\ phase' = "Proposing"
    /\ raw' = NoRaw
    /\ verdict' = "none"
    /\ UNCHANGED <<state, disk, plan, fault, result, render, before, history, counts,
                   mode, cancelling>>

\* `continue` after a rejected plan
Continue ==
    /\ phase = "Rejected"
    /\ phase' = "AwaitingInput"
    /\ raw' = NoRaw
    /\ verdict' = "none"
    /\ UNCHANGED <<state, disk, plan, fault, result, render, before, history, counts,
                   mode, cancelling>>

\* steps 6 and 7: the result and the follow-up question are printed
Report ==
    /\ mode = "agent"
    /\ phase = "Reporting"
    /\ phase' = "AwaitingInput"
    /\ raw' = NoRaw
    /\ plan' = NoPlan
    /\ verdict' = "none"
    /\ result' = NoResult
    /\ render' = {}
    /\ before' = NoSnapshot
    /\ UNCHANGED <<state, disk, fault, history, counts, mode, cancelling>>

-----------------------------------------------------------------------------
(* client.py: the loop of main *)

\* a line the user types: its first word and, after the first space, the rest
Line(word, rest) == [word |-> word, rest |-> rest]

ClientLines ==
    {Line("", NoRaw), Line("exit", NoRaw), Line("QUIT", NoRaw),
     Line("tool_get_schema", NoRaw),
     Line("tool_load_data", Json(Kw("path", PyPath(SalesPath)))),
     Line("tool_load_data", Json(Kw("path", PyPath(NowherePath)))),
     Line("tool_set_schema", Json(Kw("schema", Buckets))),
     Line("tool_head", Json(Kw("n", PyInt(1)))),
     Line("tool_head", Json(PyInt(5))),
     Line("tool_summary", Malformed("trailing_comma", EmptyDict)),
     Line("summary", Json(EmptyDict)),
     Line("exit", Json(EmptyDict))}

\* input(): an empty line asks again, exit and quit end the loop, a line whose
\* rest json.loads refuses asks again, every other line is called as it is:
\* the tool is not looked up and the arguments may be any JSON value
ClientReadInput ==
    /\ mode = "client"
    /\ phase = "AwaitingInput"
    /\ \E line \in ClientLines :
          IF line.rest = NoRaw /\ line.word = ""
          THEN UNCHANGED <<phase, plan>>
          ELSE IF line.rest = NoRaw /\ Lower(line.word) \in {"exit", "quit"}
          THEN phase' = "Ended" /\ UNCHANGED plan
          ELSE IF line.rest # NoRaw /\ Raised(json_loads(line.rest))
          THEN UNCHANGED <<phase, plan>>
          ELSE /\ phase' = "Dispatching"
               /\ plan' = [tool |-> PyStr(line.word),
                           args |-> IF line.rest = NoRaw THEN EmptyDict
                                    ELSE json_loads(line.rest).val]
    /\ calls' = 0
    /\ dispatched' = 0
    /\ UNCHANGED <<state, disk, raw, verdict, fault, result, render, before, history,
                   mode, cancelling>>

\* dump_tool_result, then the next prompt
ClientReport ==
    /\ mode = "client"
    /\ phase = "Reporting"
    /\ phase' = "AwaitingInput"
    /\ plan' = NoPlan
    /\ result' = NoResult
    /\ render' = {}
    /\ before' = NoSnapshot
    /\ UNCHANGED <<state, disk, raw, verdict, fault, history, counts, mode, cancelling>>

-----------------------------------------------------------------------------
(* server.py: the tools, as session.call_tool(tool, arguments=args) runs them *)

\* the call never entered the function: a required parameter has no argument
Refused == [kind |-> "refused"]

Called(tool) ==
    phase = "Dispatching" /\ ~cancelling /\ plan.args.t = "dict" /\ plan.tool.s = tool

Has(k) == HasKey(plan.args, k)
Arg(k, default) == Get(plan.args, k, default)

\* the loop goes on to print the result
Answered ==
    /\ phase' = "Reporting"
    /\ before' = Snapshot
    /\ dispatched' = Once(dispatched)
    /\ UNCHANGED <<disk, raw, plan, verdict, fault, calls, mode, cancelling>>

\* the positions of the charts a call may fail to show: none without a table
Unshown(k) == IF IsNone(df) THEN {{}} ELSE SUBSET (1..k)

ItemCount(x) == IF x.t = "list" THEN Len(x.l) ELSE 0

tool_load_data ==
    /\ Called("tool_load_data")
    /\ IF Has("path")
       THEN LET path == Arg("path", PyNone) IN
            /\ load_data(path)
            /\ loaded' = IF result'.val.ok
                         THEN [df |-> read_csv(LoadPath(path), disk).val,
                               name |-> PathName(LoadPath(path))]
                         ELSE loaded
            /\ since' = IF result'.val.ok THEN [since EXCEPT !.load = TRUE] ELSE since
       ELSE /\ result' = Refused
            /\ UNCHANGED <<state, loaded, since>>
    /\ render' = {}
    /\ UNCHANGED <<lastGet, prevGet, between>>
    /\ Answered

tool_set_schema ==
    /\ Called("tool_set_schema")
    /\ IF Has("schema")
       THEN /\ set_schema(Arg("schema", PyNone))
            /\ since' = [since EXCEPT !.set = TRUE]
       ELSE /\ result' = Refused
            /\ UNCHANGED <<state, since>>
    /\ render' = {}
    /\ UNCHANGED <<loaded, lastGet, prevGet, between>>
    /\ Answered

tool_get_schema ==
    /\ Called("tool_get_schema")
    /\ result' = get_schema
    /\ lastGet' = result'
    /\ prevGet' = IF since.set THEN NoResult ELSE lastGet
    /\ between' = since
    /\ since' = NoCalls
    /\ render' = {}
    /\ UNCHANGED <<state, loaded>>
    /\ Answered

tool_summary ==
    /\ Called("tool_summary")
    /\ result' = summary(Arg("numeric_only", PyBool(TRUE)))
    /\ render' = {}
    /\ UNCHANGED <<state, history>>
    /\ Answered

tool_head ==
    /\ Called("tool_head")
    /\ result' = head(Arg("n", PyInt(5)))
    /\ render' = {}
    /\ UNCHANGED <<state, history>>
    /\ Answered

tool_top_categories ==
    /\ Called("tool_top_categories")
    /\ IF Has("columns")
       THEN \E unshown \in Unshown(ItemCount(Arg("columns", PyNone))) :
               /\ result' = top_categories(Arg("columns", PyNone),
                                           Arg("top_n", PyInt(10)), unshown)
               /\ render' = unshown
       ELSE result' = Refused /\ render' = {}
    /\ UNCHANGED <<state, history>>
    /\ Answered

tool_correlations ==
    /\ Called("tool_correlations")
    /\ result' = correlations(Arg("columns", PyNone), Arg("method", PyStr("pearson")))
    /\ render' = {}
    /\ UNCHANGED <<state, history>>
    /\ Answered

tool_scatter_pairs ==
    /\ Called("tool_scatter_pairs")
    /\ IF Has("pairs")
       THEN \E unshown \in Unshown(ItemCount(Arg("pairs", PyNone))) :
               /\ result' = scatter_pairs(Arg("pairs", PyNone), unshown)
               /\ render' = unshown
       ELSE result' = Refused /\ render' = {}
    /\ UNCHANGED <<state, history>>
    /\ Answered

tool_outliers ==
    /\ Called("tool_outliers")
    /\ result' = IF Has("columns")
                 THEN outliers(Arg("columns", PyNone), Arg("z", PyFloat(300)))
                 ELSE Refused
    /\ render' = {}
    /\ UNCHANGED <<state, history>>
    /\ Answered

tool_missing ==
    /\ Called("tool_missing")
    /\ result' = missing(Arg("threshold", PyFloat(20)))
    /\ render' = {}
    /\ UNCHANGED <<state, history>>
    /\ Answered

tool_plot_hist ==
    /\ Called("tool_plot_hist")
    /\ IF Has("column")
       THEN \E unshown \in Unshown(1) :
               /\ result' = plot_hist(Arg("column", PyNone), Arg("nbins", PyInt(30)),
                                      unshown = {})
               /\ render' = unshown
       ELSE result' = Refused /\ render' = {}
    /\ UNCHANGED <<state, history>>
    /\ Answered

tool_plot_xy ==
    /\ Called("tool_plot_xy")
    /\ IF Has("x") /\ Has("y")
       THEN \E unshown \in Unshown(1) :
               /\ result' = plot_xy(Arg("x", PyNone), Arg("y", PyNone), unshown = {})
               /\ render' = unshown
       ELSE result' = Refused /\ render' = {}
    /\ UNCHANGED <<state, history>>
    /\ Answered

tool_time_trend ==
    /\ Called("tool_time_trend")
    /\ IF Has("column")
       THEN \E unshown \in Unshown(1) :
               /\ result' = time_trend(Arg("column", PyNone), Arg("freq", PyStr("M")),
                                       unshown = {})
               /\ render' = unshown
       ELSE result' = Refused /\ render' = {}
    /\ UNCHANGED <<state, history>>
    /\ Answered

\* args that are no mapping reach session.call_tool as they are.  The MCP
\* client is not part of these sources: it either raises on them, which no
\* handler of the loop catches, or answers without running the tool.
call_tool_bad_arguments ==
    /\ phase = "Dispatching"
    /\ ~cancelling
    /\ plan.args.t # "dict"
    /\ \/ /\ phase' = "Crashed"
          /\ fault' = "ValidationError"
          /\ UNCHANGED <<result, before>>
       \/ /\ phase' = "Reporting"
          /\ result' = Refused
          /\ before' = Snapshot
          /\ UNCHANGED fault
    /\ dispatched' = Once(dispatched)
    /\ UNCHANGED <<state, disk, raw, plan, verdict, render, history, calls, mode, cancelling>>

\* client.py calls whatever name the line starts with: for a name server.py
\* registers no tool under, no function runs and the call answers with an error
call_tool_unknown ==
    /\ phase = "Dispatching"
    /\ ~cancelling
    /\ plan.args.t = "dict"
    /\ ~InToolNames(plan.tool)
    /\ result' = Refused
    /\ render' = {}
    /\ UNCHANGED <<state, history>>
    /\ Answered

\* the main task was asked to cancel while it waited at the prompt:
\* `await session.call_tool` raises CancelledError, which is no
\* KeyboardInterrupt and leaves the loop.  The request may have reached the
\* server by then; the server ends with the client, so the model leaves its
\* STATE as it was.  The locals of the loop are gone with the loop.
call_tool_cancelled ==
    /\ cancelling
    /\ phase = "Dispatching"
    /\ dispatched' = Once(dispatched)
    /\ phase' = "Crashed"
    /\ fault' = "CancelledError"
    /\ raw' = NoRaw
    /\ plan' = NoPlan
    /\ verdict' = "none"
    /\ result' = NoResult
    /\ render' = {}
    /\ before' = NoSnapshot
    /\ UNCHANGED <<state, disk, history, calls, mode, cancelling>>

-----------------------------------------------------------------------------

Next ==
    \/ ReadInput
    \/ Interrupt
    \/ call_llm
    \/ call_llm_fails
    \/ Validate
    \/ Continue
    \/ tool_load_data
    \/ tool_set_schema
    \/ tool_get_schema
    \/ tool_summary
    \/ tool_head
    \/ tool_top_categories
    \/ tool_correlations
    \/ tool_scatter_pairs
    \/ tool_outliers
    \/ tool_missing
    \/ tool_plot_hist
    \/ tool_plot_xy
    \/ tool_time_trend
    \/ call_tool_bad_arguments
    \/ Report
    \/ ClientReadInput
    \/ ClientReport
    \/ call_tool_unknown
    \/ call_tool_cancelled

Spec == Init /\ [][Next]_vars

-----------------------------------------------------------------------------
(* Properties *)

\* the operation of this turn has been called and has answered
Answer(tool) == phase = "Reporting" /\ result # Refused /\ plan.tool.s = tool
AnyAnswer == phase = "Reporting" /\ result # Refused

\* C1: a load_data call that fails leaves table and name as they were and one
\* that succeeds replaces both with the table and the name of the file read;
\* so in every state table and name are those of the most recent successful
\* load, or both absent, and head returns rows of that table.
C1_LoadAllOrNothing ==
    /\ df = loaded.df /\ name = loaded.name
    /\ Answer("tool_load_data") =>
          IF result.val.ok
          THEN /\ df = read_csv(LoadPath(Arg("path", PyNone)), disk).val
               /\ name = PathName(LoadPath(Arg("path", PyNone)))
          ELSE df = before.df /\ name = before.name
    /\ (Answer("tool_head") /\ Returned(result) /\ result.val.ok) =>
          \A i \in 1..Len(result.val.rows) : result.val.rows[i] = Row(loaded.df, i)

\* a load that failed after one that succeeded: the earlier table is still there
C1_Witness ==
    /\ Answer("tool_load_data")
    /\ ~result.val.ok
    /\ before.df = Sales
    /\ df = Sales /\ name = PyStr("sales.csv")

\* C2: while no load has succeeded, every operation that needs the dataset
\* answers ok:false, no_dataset_loaded, whatever its arguments, and does not
\* raise.
C2_NoDatasetLoaded ==
    (AnyAnswer /\ plan.tool.s \in DatasetTools /\ IsNone(before.df)) =>
        result = Return(NoDataset)

\* time_trend on a column no table has, before any load
C2_Witness ==
    /\ Answer("tool_time_trend")
    /\ IsNone(loaded.df)
    /\ Arg("column", PyNone) = PyStr("nope")
    /\ result = Return(NoDataset)

\* C3 as claimed: with a dataset loaded, every operation on it returns a
\* result with an ok key, whatever the arguments; no error leaves the
\* operation.
C3_AsClaimed ==
    (AnyAnswer /\ plan.tool.s \in DatasetTools /\ ~IsNone(before.df)) =>
        Returned(result) /\ "ok" \in DOMAIN result.val

IsPlanObject(text) == Returned(json_loads(text)) /\ json_loads(text).val.t = "dict"

\* C4 as claimed: the step that validates a planner text which is no JSON
\* object rejects it as InvalidPlanSyntax, and one that validates an object
\* whose tool is missing or unknown rejects it as UnknownOperation; neither
\* dispatches anything or changes the dataset context.
C4_AsClaimed ==
    [][(phase = "Validating" /\ phase' # "Validating"
            /\ (~IsPlanObject(raw) \/ ~InToolNames(Get(raw.val, "tool", PyNone))))
        => /\ phase' = "Rejected"
           /\ verdict' = IF IsPlanObject(raw) THEN "UnknownOperation"
                         ELSE "InvalidPlanSyntax"
           /\ result' = NoResult
           /\ UNCHANGED state]_vars

\* C5 as claimed: a transport failure of the planner call ends the turn only,
\* never the session.
C5_AsClaimed == fault = "RequestException" => phase \notin {"Crashed", "Ended"}

\* C6 as claimed: a turn in which the planner returned a text moves through
\* Validating to Dispatching and Reporting or to Rejected and back to
\* AwaitingInput, never out of the loop by a fault; Dispatching is entered
\* only with an accepted plan.
C6_AsClaimed ==
    mode = "agent" =>
    /\ raw # NoRaw => phase \in {"Validating", "Dispatching", "Reporting", "Rejected"}
    /\ phase \in {"Dispatching", "Reporting"} => verdict = "accepted"

\* C7 as claimed: a returned result has a boolean ok; with ok:false it holds
\* an error and nothing else, with ok:true it holds no error.
C7_AsClaimed ==
    Returned(result) =>
        /\ "ok" \in DOMAIN result.val
        /\ result.val.ok \in BOOLEAN
        /\ ~result.val.ok => DOMAIN result.val = {"ok", "error"}
        /\ result.val.ok => "error" \notin DOMAIN result.val

\* the context an operation's error string starts with
FailedTag(tool) ==
    CASE tool = "tool_load_data" -> "load_failed"
      [] tool = "tool_summary" -> "summary_failed"
      [] tool = "tool_correlations" -> "correlation_failed"
      [] tool = "tool_outliers" -> "outlier_failed"
      [] tool = "tool_plot_hist" -> "plot_hist_failed"
      [] tool = "tool_plot_xy" -> "plot_xy_failed"
      [] tool = "tool_time_trend" -> "time_trend_failed"
      [] OTHER -> "failed"

\* C8 as claimed: an error string is a fixed sentinel or has the three fields
\* context_failed, error class, message.
C8_AsClaimed ==
    (AnyAnswer /\ Returned(result) /\ "error" \in DOMAIN result.val) =>
        \/ result.val.error \in Sentinels
        \/ /\ Len(result.val.error) = 3
           /\ result.val.error[1] = FailedTag(plan.tool.s)

\* C9: a get_schema call returns what the get_schema call before it returned
\* when no set_schema call came between the two, whatever else did.
C9_GetSchemaStable == prevGet # NoResult => lastGet = prevGet

\* two get_schema calls around a successful load, a schema being stored
C9_Witness ==
    /\ Answer("tool_get_schema")
    /\ prevGet # NoResult
    /\ between.load
    /\ result.val.ok

\* the entry top_categories reports for the column at position i
TopValue(i) == Get(PyDict(result.val.top_categories), Arg("columns", PyNone).l[i], PyNone)

\* C10 as claimed: a chart that fails to render never makes time_trend,
\* top_categories or scatter_pairs answer ok:false for a computation that
\* succeeded, and top_categories reports it for that column alone.
C10_AsClaimed ==
    /\ (Answer("tool_time_trend") /\ ~IsNone(df) /\ IsColumn(df, Arg("column", PyNone))) =>
          result.val.ok
    /\ (Answer("tool_top_categories") /\ Returned(result) /\ ~IsNone(df)) =>
          /\ result.val.ok
          /\ \A i \in 1..ItemCount(Arg("columns", PyNone)) :
                (/\ IsColumn(df, Arg("columns", PyNone).l[i])
                 /\ Arg("top_n", PyInt(10)).t = "int"
                 /\ \A j \in 1..ItemCount(Arg("columns", PyNone)) :
                       Arg("columns", PyNone).l[j] = Arg("columns", PyNone).l[i]
                           => j \notin render)
                => TopValue(i).t = "dict"
    /\ (Answer("tool_scatter_pairs") /\ Returned(result) /\ ~IsNone(df)) =>
          result.val.ok

\* C11: in each turn the planner is called exactly once and at most one
\* operation is dispatched: a turn that is validating, rejected or dispatching
\* has made one planner call and no dispatch, a turn that reports has made one
\* of each, and a finished turn made no second call of either kind.
C11_OnePlanOneDispatch ==
    mode = "agent" =>
    /\ calls <= 1
    /\ dispatched <= 1
    /\ phase \in {"Validating", "Rejected", "Dispatching", "Reporting"} => calls = 1
    /\ phase \in {"Validating", "Rejected", "Dispatching"} => dispatched = 0
    /\ phase = "Reporting" => dispatched = 1

\* a turn whose plan was rejected is over: one planner call, nothing dispatched
C11_Witness ==
    mode = "agent" /\ phase = "AwaitingInput" /\ calls = 1 /\ dispatched = 0

\* desc.to_dict() of the transposed describe frame: its top-level keys are the
\* columns of that frame, the statistics
TopKeys(desc) == desc.stats

\* C12 as claimed: a summary call after a successful load returns ok:true with
\* the rows and cols that load reported and a describe structure whose
\* top-level keys are the column names of the table.
C12_AsClaimed ==
    (Answer("tool_summary") /\ ~IsNone(loaded.df)) =>
        /\ result.val.ok
        /\ result.val.rows = loaded.df.n
        /\ result.val.cols = Len(loaded.df.cols)
        /\ TopKeys(result.val.describe) = loaded.df.cols

\* the parameters a wrapper of server.py declares without a default
Required(tool) ==
    CASE tool = "tool_load_data" -> {"path"}
      [] tool = "tool_set_schema" -> {"schema"}
      [] tool = "tool_top_categories" -> {"columns"}
      [] tool = "tool_scatter_pairs" -> {"pairs"}
      [] tool = "tool_outliers" -> {"columns"}
      [] tool = "tool_plot_hist" -> {"column"}
      [] tool = "tool_plot_xy" -> {"x", "y"}
      [] tool = "tool_time_trend" -> {"column"}
      [] OTHER -> {}

\* C13 as claimed: an invocation that omits a required argument of its
\* operation does not fail for that reason: the operation is executed with a
\* default in place of the missing argument.
C13_AsClaimed ==
    (phase = "Reporting" /\ plan.args.t = "dict"
        /\ \E k \in Required(plan.tool.s) : ~Has(k))
    => result # Refused

\* C14: a load_data call whose path is None returns the no-path sentinel and
\* leaves table, name and schema as they were when dataset.csv does not exist,
\* and when it exists does exactly what load_data("dataset.csv") does.
C14_DefaultPath ==
    [][(Called("tool_load_data") /\ Has("path") /\ IsNone(Arg("path", PyNone))
            /\ phase' = "Reporting")
        => IF DefaultPath \notin disk
           THEN result' = Return(NoPath) /\ UNCHANGED state
           ELSE load_data(PyPath(DefaultPath))]_vars

\* a load without a path has read dataset.csv
C14_Witness ==
    /\ Answer("tool_load_data")
    /\ Has("path") /\ IsNone(Arg("path", PyNone))
    /\ result.val.ok
    /\ result.val.dataset = PyStr("dataset.csv")
    /\ df = People /\ name = PyStr("dataset.csv")

\* a column whose cells are all present and all equal
ConstantColumn(tbl, c) ==
    /\ IsColumn(tbl, c)
    /\ \A i \in 1..tbl.n : tbl.val[c.s][i].t # "nan" /\ tbl.val[c.s][i] = tbl.val[c.s][1]

\* C15 as claimed: outliers on columns whose values are all equal returns
\* ok:true with count 0 and no indices, for the default z and for every other
\* z that is not negative.
C15_AsClaimed ==
    (/\ Answer("tool_outliers")
     /\ ~IsNone(df)
     /\ ItemCount(Arg("columns", PyNone)) > 0
     /\ \A k \in 1..ItemCount(Arg("columns", PyNone)) :
           ConstantColumn(df, Arg("columns", PyNone).l[k])
     /\ IsNumber(Arg("z", PyFloat(300)))
     /\ Hundredths(Arg("z", PyFloat(300))) >= 0)
    => result = Return([ok |-> TRUE, count |-> 0, indices |-> <<>>])

\* the trend maps each distinct year of the column to its number of rows, the
\* years ascending
IsTrendOf(trend, tbl, cname) ==
    /\ \A i \in 1..Len(trend) : \A j \in (i + 1)..Len(trend) : trend[i][1] < trend[j][1]
    /\ {trend[i][1] : i \in 1..Len(trend)} = {tbl.val[cname][i].i : i \in 1..tbl.n}
    /\ \A i \in 1..Len(trend) :
          trend[i][2] = Cardinality({j \in 1..tbl.n : tbl.val[cname][j].i = trend[i][1]})

\* C16 as claimed: time_trend on a datetime-typed column and on an
\* integer-year column returns a result with exactly the keys ok, type and
\* trend, the type being datetime or year-int, and the trend counting the rows
\* of each period or year in ascending order.
C16_AsClaimed ==
    (/\ Answer("tool_time_trend")
     /\ ~IsNone(df)
     /\ IsColumn(df, Arg("column", PyNone))
     /\ df.dtype[Arg("column", PyNone).s] \in {"int64", "datetime64[ns]"})
    => /\ Returned(result)
       /\ DOMAIN result.val = {"ok", "type", "trend"}
       /\ result.val.ok
       /\ result.val.type = IF df.dtype[Arg("column", PyNone).s] = "int64"
                            THEN "year-int" ELSE "datetime"
       /\ IsTrendOf(result.val.trend, df, Arg("column", PyNone).s)

\* C17 as claimed: once exit, quit or an interrupt has been received no
\* operation is dispatched any more and table, name and schema stay as they
\* are; in the direct client no step calls the planner, a turn dispatches at
\* most once, and a line whose arguments are no valid JSON dispatches nothing
\* and leaves the loop at its prompt.
C17_AsClaimed ==
    [][/\ (cancelling \/ phase = "Ended") =>
             (dispatched' <= dispatched /\ UNCHANGED state)
       /\ mode = "client" =>
             /\ calls' = 0
             /\ dispatched' <= 1
             /\ phase' = "Reporting" => dispatched' = 1
             /\ phase' \in {"AwaitingInput", "Dispatching", "Reporting", "Ended",
                            "Crashed"}]_vars

\* C18: set_schema and get_schema leave table and name as they were, load_data
\* leaves the schema as it was, and every operation on the dataset leaves
\* table, name and schema as they were, whatever it answers.
C18_Frame ==
    AnyAnswer =>
        /\ plan.tool.s \in {"tool_set_schema", "tool_get_schema"} =>
              df = before.df /\ name = before.name
        /\ plan.tool.s = "tool_load_data" => schema = before.schema
        /\ plan.tool.s \in DatasetTools => Snapshot = before

\* a schema was stored while a table was loaded: the table is still there
C18_Witness ==
    /\ Answer("tool_set_schema")
    /\ Returned(result)
    /\ schema # before.schema
    /\ before.df = Sales
    /\ df = Sales /\ name = PyStr("sales.csv")

\* C19 as claimed: a set_schema call that does not return ok:true leaves the
\* stored schema as it was.
C19_AsClaimed ==
    (Answer("tool_set_schema") /\ ~(Returned(result) /\ result.val.ok)) =>
        schema = before.schema

\* C20 as claimed: a set_schema(s) that returns ok:true reports the keys of s
\* in order and stores s; no other operation changes what is stored;
\* get_schema returns what is stored, with ok:true; and get_schema answers
\* ok:false exactly while no schema has ever been stored: a stored schema is
\* never lost, and only a set_schema that returns ok:true ends the ok:false
\* answers.
C20_AsClaimed ==
    [][/\ (Called("tool_set_schema") /\ Returned(result') /\ result'.val.ok) =>
             /\ schema' = Arg("schema", PyNone)
             /\ result'.val.keys = Keys(Arg("schema", PyNone))
       /\ ~Called("tool_set_schema") => schema' = schema
       /\ (Called("tool_get_schema") /\ ~IsNone(schema)) =>
             result' = Return([ok |-> TRUE, schema |-> schema])
       /\ (Called("tool_get_schema") /\ IsNone(schema)) => ~result'.val.ok
       /\ schema.t = "dict" => schema'.t = "dict"
       /\ (IsNone(schema) /\ ~IsNone(schema')) =>
             (Returned(result') /\ result'.val.ok)]_vars

====
